---------------------------- MODULE Spec2Model ----------------------------
(***************************************************************************)
(* Model of src/main.py: a one-shot CLI that validates two tags, then      *)
(* authenticates, resolves the project's namespace, lists the findings     *)
(* carrying the old tag and PATCHes each finding's recomputed tag list.    *)
(*                                                                         *)
(* A tag is a sequence of character codes (ASCII / Unicode code points).   *)
(* Every HTTP call is modelled as a request step followed by a response    *)
(* step; the remote service is the environment and chooses the status and  *)
(* the body of every response.  Transport-level exceptions (no response at *)
(* all) and the --branch filter text are not modelled.                     *)
(***************************************************************************)
EXTENDS Integers, Sequences, FiniteSets, TLC

VARIABLES
    old_tag,          \* args.old_tag
    new_tag,          \* args.new_tag
    pc,               \* position of the single thread of control
    awaiting,         \* TRUE while a blocking HTTP call waits for its response
    validation,       \* outcome of validate_tag for each of the two tags
    requests,         \* every HTTP request issued so far, with its response status
    token,            \* local `token` of the function currently running
    project_namespace,\* local `project_namespace`
    listed,           \* the findings exactly as the listing returned them
    findings,         \* local `findings` (its tag lists are mutated in place)
    idx,              \* position of the for loop over `findings`
    updated_count,    \* local `updated_count`
    output,           \* lines printed to the operator
    exit_code         \* process exit status, -1 while the process runs

vars == << old_tag, new_tag, pc, awaiting, validation, requests, token,
           project_namespace, listed, findings, idx, updated_count, output,
           exit_code >>

-----------------------------------------------------------------------------
(* Bounds of the model *)

MaxProbeLen == 2
MaxFindings == 3
MaxTotalTags == 3

(* Program constant: the length limit of validate_tag *)
MaxTagLen == 63

-----------------------------------------------------------------------------
(* Character codes *)

Upper  == 65..90      \* A-Z
Lower  == 97..122     \* a-z
Digit  == 48..57      \* 0-9
Punct  == {61, 64, 95, 46, 45}   \* = @ _ . -
NewLine == 10

\* the character class [A-Za-z0-9=@_.-] of valid_pattern
PatternClass == Upper \cup Lower \cup Digit \cup Punct

\* re.match(r'^[A-Za-z0-9=@_.-]+$', tag): one or more characters of the class
\* from the start, then `$`, which (without re.MULTILINE) matches at the end
\* of the string and also just before a newline that ends the string.
ReMatch(tag) ==
    \/ /\ Len(tag) >= 1
       /\ \A i \in 1..Len(tag) : tag[i] \in PatternClass
    \/ /\ Len(tag) >= 2
       /\ \A i \in 1..(Len(tag) - 1) : tag[i] \in PatternClass
       /\ tag[Len(tag)] = NewLine

\* validate_tag(tag, tag_name): "ok" for `return True`, otherwise which
\* ValueError was raised.
validate_tag(tag) ==
    IF Len(tag) = 0 THEN "empty"
    ELSE IF Len(tag) > MaxTagLen THEN "too_long"
    ELSE IF ~ReMatch(tag) THEN "bad_chars"
    ELSE "ok"

-----------------------------------------------------------------------------
(* Inputs *)

Pad(n) == [i \in 1..n |-> 97]

RECURSIVE SeqsUpTo(_, _)
SeqsUpTo(S, n) ==
    IF n = 0 THEN { <<>> }
    ELSE LET shorter == SeqsUpTo(S, n - 1)
         IN  shorter \cup { Append(s, c) : s \in { t \in shorter : Len(t) = n - 1 }, c \in S }

\* characters at and around the edges of every range of the class
ProbeChars ==
    { 10, 13, 32, 33, 44, 45, 46, 47, 48, 57, 58, 60, 61, 62, 63, 64, 65, 90,
      91, 94, 95, 96, 97, 122, 123, 233 }

LongTags ==
    { Pad(MaxTagLen - 1), Pad(MaxTagLen), Pad(MaxTagLen + 1),
      Pad(MaxTagLen - 1) \o << NewLine >>, Pad(MaxTagLen) \o << NewLine >>,
      Pad(MaxTagLen - 1) \o << 32 >> }

ProbeTags == SeqsUpTo(ProbeChars, MaxProbeLen) \cup LongTags

\* --old-tag: "d", "d\n", "", " ", and a 64 character tag
OldCliTags == { << 100 >>, << 100, NewLine >>, << >>, << 32 >>, Pad(MaxTagLen + 1) }

\* --new-tag: "p", "d", "", " ", and a 64 character tag
NewCliTags == { << 112 >>, << 100 >>, << >>, << 32 >>, Pad(MaxTagLen + 1) }

OtherTag == << 120 >>   \* "x": a tag that is neither the old nor the new one

TagUniverse == { old_tag, new_tag, OtherTag }

\* every listing of at most k findings carrying at most t tags in total;
\* a finding is its tag list, its uuid is assigned by position
RECURSIVE TagLists(_, _)
TagLists(k, t) ==
    IF k = 0 THEN { <<>> }
    ELSE { <<>> } \cup
         UNION { { << s >> \o rest : rest \in TagLists(k - 1, t - Len(s)) }
                 : s \in SeqsUpTo(TagUniverse, t) }

Listings ==
    { [i \in 1..Len(l) |-> [uuid |-> i, tags |-> l[i]]] : l \in TagLists(MaxFindings, MaxTotalTags) }

-----------------------------------------------------------------------------
(* Helpers *)

Contains(s, e) == \E i \in 1..Len(s) : s[i] = e

FirstIndex(s, e) == CHOOSE i \in 1..Len(s) : s[i] = e /\ \A j \in 1..(i - 1) : s[j] # e

\* list.remove(e): deletes the first occurrence only
ListRemove(s, e) ==
    LET k == FirstIndex(s, e)
    IN  [i \in 1..(Len(s) - 1) |-> IF i < k THEN s[i] ELSE s[i + 1]]

\* a recomputation that forgets to remove the old tag
RecomputeTags_KeepOld(existing_tags, o, n) ==
    IF ~Contains(existing_tags, n) THEN Append(existing_tags, n) ELSE existing_tags

\* a recomputation that appends the new tag without looking for it first
RecomputeTags_AlwaysAppend(existing_tags, o, n) ==
    Append(IF Contains(existing_tags, o) THEN ListRemove(existing_tags, o)
           ELSE existing_tags, n)

\* lines 134-144: the recomputation of one finding's tag list
RecomputeTags(existing_tags, o, n) ==
    LET removed == IF Contains(existing_tags, o)
                   THEN ListRemove(existing_tags, o)
                   ELSE existing_tags
    IN  IF ~Contains(removed, n) THEN Append(removed, n) ELSE removed

Request(method, path, tok, payload) ==
    [method |-> method, path |-> path, token |-> tok, payload |-> payload,
     status |-> 0, no_objects |-> FALSE]

\* the response to the request in flight: its status code
SetStatus(log, st) == [log EXCEPT ![Len(log)].status = st]

\* the response to a listing request in flight: its status code and, for a
\* 200, whether the body's list of objects is empty
SetResponse(log, st, objects) ==
    [log EXCEPT ![Len(log)].status = st,
                ![Len(log)].no_objects = (st = 200 /\ objects = << >>)]

Line(msg, a, b) == [msg |-> msg, updated |-> a, total |-> b]

-----------------------------------------------------------------------------
(* Initial states *)

InitWith(olds, news) ==
    /\ old_tag \in olds
    /\ new_tag \in news
    /\ pc = "validate_old"
    /\ awaiting = FALSE
    /\ validation = [old |-> "pending", new |-> "pending"]
    /\ requests = << >>
    /\ token = 0
    /\ project_namespace = "unset"
    /\ listed = << >>
    /\ findings = << >>
    /\ idx = 0
    /\ updated_count = 0
    /\ output = << >>
    /\ exit_code = -1

Init == InitWith(OldCliTags, NewCliTags)

InitValidate == InitWith(ProbeTags, NewCliTags)

-----------------------------------------------------------------------------
(* __main__, lines 214-220 *)

ValidateOld ==
    /\ pc = "validate_old"
    /\ LET r == validate_tag(old_tag)
       IN  /\ validation' = [validation EXCEPT !.old = r]
           /\ IF r = "ok"
              THEN /\ pc' = "validate_new"
                   /\ UNCHANGED << output, exit_code >>
              ELSE /\ pc' = "exit"
                   /\ output' = Append(output, Line("tag_validation_error", 0, 0))
                   /\ exit_code' = 1
    /\ UNCHANGED << old_tag, new_tag, awaiting, requests, token,
                    project_namespace, listed, findings, idx, updated_count >>

ValidateNew ==
    /\ pc = "validate_new"
    /\ LET r == validate_tag(new_tag)
       IN  /\ validation' = [validation EXCEPT !.new = r]
           /\ IF r = "ok"
              THEN /\ pc' = "auth_project"
                   /\ UNCHANGED << output, exit_code >>
              ELSE /\ pc' = "exit"
                   /\ output' = Append(output, Line("tag_validation_error", 0, 0))
                   /\ exit_code' = 1
    /\ UNCHANGED << old_tag, new_tag, awaiting, requests, token,
                    project_namespace, listed, findings, idx, updated_count >>

-----------------------------------------------------------------------------
(* The except clause of update_finding_tags, lines 167-168: the exception is
   printed and the function returns normally. *)

Caught(why) ==
    /\ pc' = "returned"
    /\ output' = Append(output, Line(why, 0, 0))

-----------------------------------------------------------------------------
(* get_token, lines 29-45; called at lines 49, 81 and 123 *)

AuthSites == { "auth_project", "auth_findings", "auth_patch" }

AfterAuth(site) ==
    CASE site = "auth_project"  -> "get_project"
      [] site = "auth_findings" -> "get_findings"
      [] site = "auth_patch"    -> "patch"

GetTokenRequest ==
    /\ pc \in AuthSites
    /\ ~awaiting
    /\ requests' = Append(requests,
                     Request("POST", "/auth/api-key", 0,
                             [key |-> "API_KEY", secret |-> "API_SECRET"]))
    /\ awaiting' = TRUE
    /\ UNCHANGED << old_tag, new_tag, pc, validation, token, project_namespace,
                    listed, findings, idx, updated_count, output, exit_code >>

\* a get_token that returns the body's token whatever the status
GetTokenResponse_IgnoreStatus ==
    /\ pc \in AuthSites
    /\ awaiting
    /\ \E st \in { 200, 401 } :
         /\ requests' = SetStatus(requests, st)
         /\ token' = Len(requests)
         /\ pc' = AfterAuth(pc)
         /\ idx' = IF pc = "auth_patch" THEN 1 ELSE idx
    /\ awaiting' = FALSE
    /\ UNCHANGED << old_tag, new_tag, validation, project_namespace, listed,
                    findings, updated_count, output, exit_code >>

\* the token of a 200 response is named after the round-trip that issued it
GetTokenResponse ==
    /\ pc \in AuthSites
    /\ awaiting
    /\ \E st \in { 200, 401 } :
         /\ requests' = SetStatus(requests, st)
         /\ IF st = 200
            THEN /\ token' = Len(requests)
                 /\ pc' = AfterAuth(pc)
                 /\ idx' = IF pc = "auth_patch" THEN 1 ELSE idx
                 /\ UNCHANGED output
            ELSE /\ Caught("failed_to_get_token")
                 /\ UNCHANGED << token, idx >>
    /\ awaiting' = FALSE
    /\ UNCHANGED << old_tag, new_tag, validation, project_namespace, listed,
                    findings, updated_count, exit_code >>

-----------------------------------------------------------------------------
(* get_project_namespace, lines 47-76 *)

GetProjectRequest ==
    /\ pc = "get_project"
    /\ ~awaiting
    /\ requests' = Append(requests,
                     Request("GET", "/projects", token, [traverse |-> "true"]))
    /\ awaiting' = TRUE
    /\ UNCHANGED << old_tag, new_tag, pc, validation, token, project_namespace,
                    listed, findings, idx, updated_count, output, exit_code >>

\* a resolver whose caller goes on with the token it already holds
GetProjectResponse_ReuseToken ==
    /\ pc = "get_project"
    /\ awaiting
    /\ \E st \in { 200, 500 }, projects \in { << >>, << "tenant" >>, << "tenant", "other" >> } :
         /\ requests' = SetResponse(requests, st, projects)
         /\ IF st = 200 /\ projects # << >>
            THEN /\ project_namespace' = projects[1]
                 /\ pc' = "get_findings"
                 /\ UNCHANGED output
            ELSE /\ Caught(IF st = 200 THEN "no_project_found"
                           ELSE "failed_to_fetch_project")
                 /\ UNCHANGED project_namespace
    /\ awaiting' = FALSE
    /\ UNCHANGED << old_tag, new_tag, validation, token, listed, findings, idx,
                    updated_count, exit_code >>

GetProjectResponse ==
    /\ pc = "get_project"
    /\ awaiting
    /\ \E st \in { 200, 500 }, projects \in { << >>, << "tenant" >>, << "tenant", "other" >> } :
         /\ requests' = SetResponse(requests, st, projects)
         /\ IF st = 200 /\ projects # << >>
            THEN /\ project_namespace' = projects[1]
                 /\ pc' = "auth_findings"
                 /\ UNCHANGED output
            ELSE /\ Caught(IF st = 200 THEN "no_project_found"
                           ELSE "failed_to_fetch_project")
                 /\ UNCHANGED project_namespace
    /\ awaiting' = FALSE
    /\ UNCHANGED << old_tag, new_tag, validation, token, listed, findings, idx,
                    updated_count, exit_code >>

-----------------------------------------------------------------------------
(* get_findings_with_tag, lines 78-112, and lines 117-121 of its caller *)

GetFindingsRequest ==
    /\ pc = "get_findings"
    /\ ~awaiting
    /\ requests' = Append(requests,
                     Request("GET", "/findings", token,
                             [tags_contains |-> old_tag, traverse |-> "true"]))
    /\ awaiting' = TRUE
    /\ UNCHANGED << old_tag, new_tag, pc, validation, token, project_namespace,
                    listed, findings, idx, updated_count, output, exit_code >>

\* an updater without the `if not findings` early return
GetFindingsResponse_NoEmptyCheck ==
    /\ pc = "get_findings"
    /\ awaiting
    /\ \E st \in { 200, 500 }, objects \in Listings :
         /\ requests' = SetResponse(requests, st, objects)
         /\ IF st = 200
            THEN /\ listed' = objects
                 /\ findings' = objects
                 /\ pc' = "auth_patch"
                 /\ UNCHANGED output
            ELSE /\ Caught("failed_to_fetch_findings")
                 /\ UNCHANGED << listed, findings >>
    /\ awaiting' = FALSE
    /\ UNCHANGED << old_tag, new_tag, validation, token, project_namespace, idx,
                    updated_count, exit_code >>

GetFindingsResponse ==
    /\ pc = "get_findings"
    /\ awaiting
    /\ \E st \in { 200, 500 }, objects \in Listings :
         /\ requests' = SetResponse(requests, st, objects)
         /\ IF st = 200
            THEN /\ listed' = objects
                 /\ findings' = objects
                 /\ IF objects = << >>
                    THEN /\ pc' = "returned"
                         /\ output' = Append(output, Line("no_findings_found", 0, 0))
                    ELSE /\ pc' = "auth_patch"
                         /\ UNCHANGED output
            ELSE /\ Caught("failed_to_fetch_findings")
                 /\ UNCHANGED << listed, findings >>
    /\ awaiting' = FALSE
    /\ UNCHANGED << old_tag, new_tag, validation, token, project_namespace, idx,
                    updated_count, exit_code >>

-----------------------------------------------------------------------------
(* update_finding_tags, the loop of lines 131-165 *)

\* a payload that also carries another attribute of the finding
Payload_WithSpec(finding_uuid, existing_tags) ==
    [update_mask |-> "meta.tags", uuid |-> finding_uuid, tags |-> existing_tags,
     spec |-> "finding.spec"]

\* lines 146-156
Payload(finding_uuid, existing_tags) ==
    [update_mask |-> "meta.tags", uuid |-> finding_uuid, tags |-> existing_tags]

\* a loop that walks the listing from its end
PatchRequest_Reversed ==
    /\ pc = "patch"
    /\ ~awaiting
    /\ idx <= Len(findings)
    /\ LET at == Len(findings) + 1 - idx
           finding == findings[at]
           existing_tags == RecomputeTags(finding.tags, old_tag, new_tag)
       IN  /\ findings' = [findings EXCEPT ![at].tags = existing_tags]
           /\ requests' = Append(requests,
                            Request("PATCH", "/findings", token,
                                    Payload(finding.uuid, existing_tags)))
    /\ awaiting' = TRUE
    /\ UNCHANGED << old_tag, new_tag, pc, validation, token, project_namespace,
                    listed, idx, updated_count, output, exit_code >>

\* lines 132-158: the finding's own tag list is recomputed in place and sent
PatchRequest ==
    /\ pc = "patch"
    /\ ~awaiting
    /\ idx <= Len(findings)
    /\ LET finding == findings[idx]
           existing_tags == RecomputeTags(finding.tags, old_tag, new_tag)
       IN  /\ findings' = [findings EXCEPT ![idx].tags = existing_tags]
           /\ requests' = Append(requests,
                            Request("PATCH", "/findings", token,
                                    Payload(finding.uuid, existing_tags)))
    /\ awaiting' = TRUE
    /\ UNCHANGED << old_tag, new_tag, pc, validation, token, project_namespace,
                    listed, idx, updated_count, output, exit_code >>

\* a loop that raises on the first PATCH that is not a 200
PatchResponse_AbortOnFailure ==
    /\ pc = "patch"
    /\ awaiting
    /\ \E st \in { 200, 500 } :
         /\ requests' = SetStatus(requests, st)
         /\ IF st = 200
            THEN /\ updated_count' = updated_count + 1
                 /\ idx' = idx + 1
                 /\ IF idx = Len(findings)
                    THEN /\ pc' = "returned"
                         /\ output' = Append(output,
                                        Line("updated", updated_count + 1, Len(findings)))
                    ELSE UNCHANGED << pc, output >>
            ELSE /\ Caught("failed_to_update_finding")
                 /\ UNCHANGED << updated_count, idx >>
    /\ awaiting' = FALSE
    /\ UNCHANGED << old_tag, new_tag, validation, token, project_namespace,
                    listed, findings, exit_code >>

\* lines 159-165: count a 200, log anything else, go on; after the last
\* finding print the report
PatchResponse ==
    /\ pc = "patch"
    /\ awaiting
    /\ \E st \in { 200, 500 } :
         LET count == IF st = 200 THEN updated_count + 1 ELSE updated_count
         IN  /\ requests' = SetStatus(requests, st)
             /\ updated_count' = count
             /\ idx' = idx + 1
             /\ IF idx = Len(findings)
                THEN /\ pc' = "returned"
                     /\ output' = Append(output, Line("updated", count, Len(findings)))
                ELSE UNCHANGED << pc, output >>
    /\ awaiting' = FALSE
    /\ UNCHANGED << old_tag, new_tag, validation, token, project_namespace,
                    listed, findings, exit_code >>

-----------------------------------------------------------------------------
(* __main__, line 227: the script runs off its end *)

MainFinish ==
    /\ pc = "returned"
    /\ pc' = "exit"
    /\ output' = Append(output, Line("findings_processed", 0, 0))
    /\ exit_code' = 0
    /\ UNCHANGED << old_tag, new_tag, awaiting, validation, requests, token,
                    project_namespace, listed, findings, idx, updated_count >>

-----------------------------------------------------------------------------

Next ==
    \/ ValidateOld
    \/ ValidateNew
    \/ GetTokenRequest
    \/ GetTokenResponse
    \/ GetProjectRequest
    \/ GetProjectResponse
    \/ GetFindingsRequest
    \/ GetFindingsResponse
    \/ PatchRequest
    \/ PatchResponse
    \/ MainFinish

Spec == Init /\ [][Next]_vars

NextValidate == ValidateOld \/ ValidateNew

SpecValidate == InitValidate /\ [][NextValidate]_vars

-----------------------------------------------------------------------------
(* Vocabulary of the properties *)

IsPatch(r) == r.method = "PATCH"
IsAuth(r)  == r.method = "POST" /\ r.path = "/auth/api-key"
IsListing(r) == r.method = "GET" /\ r.path = "/findings"
IsLookup(r)  == r.method = "GET" /\ r.path = "/projects"

PatchSeq == SelectSeq(requests, IsPatch)
AuthSeq  == SelectSeq(requests, IsAuth)

Elems(s) == { s[i] : i \in 1..Len(s) }
Count(s, e) == Cardinality({ i \in 1..Len(s) : s[i] = e })
Printed(line) == \E i \in 1..Len(output) : output[i] = line
PrintedMsg(msg) == \E i \in 1..Len(output) : output[i].msg = msg

Succeeded == LET ps == PatchSeq IN { k \in 1..Len(ps) : ps[k].status = 200 }
Finished == pc \in { "returned", "exit" }

\* the listing GET got a 200
ListingSucceeded == \E i \in 1..Len(requests) : IsListing(requests[i]) /\ requests[i].status = 200

\* the tag list the listing gave for the finding a PATCH is about, and the
\* tag list the PATCH carries
ListedTags(r) == listed[r.payload.uuid].tags
SentTags(r) == r.payload.tags

\* a tag as the contract describes it
WellFormed(T) ==
    /\ 1 <= Len(T)
    /\ Len(T) <= 63
    /\ \A i \in 1..Len(T) :
         \/ T[i] \in 65..90
         \/ T[i] \in 97..122
         \/ T[i] \in 48..57
         \/ T[i] \in { 61, 64, 95, 46, 45 }

-----------------------------------------------------------------------------
\* C1: validate_tag succeeds exactly when the tag has 1 to 63 characters, all
\* of them among A-Z a-z 0-9 = @ _ . - ; otherwise it raises.  (Fails: a tag
\* of valid characters followed by one newline is accepted.)
C1_ValidateIffWellFormed ==
    /\ validation.old # "pending" => (validation.old = "ok" <=> WellFormed(old_tag))
    /\ validation.new # "pending" => (validation.new = "ok" <=> WellFormed(new_tag))

\* C2: when either tag is not a valid tag, no HTTP request is ever issued and
\* the process ends with status 1.  (Fails through C1: "d\n" passes
\* validation and the run goes on to the network.)
C2_InvalidTagNoRequests ==
    (~WellFormed(old_tag) \/ ~WellFormed(new_tag)) =>
        /\ requests = << >>
        /\ pc \notin AuthSites
        /\ exit_code \in { -1, 1 }

-----------------------------------------------------------------------------
\* C3 as stated: for every PATCH whose finding was listed with the old tag and
\* without the new one, the tags sent are, as a set, (S - {o}) + {n}.
C3_MembershipExact ==
    \A r \in Elems(PatchSeq) :
        LET S == ListedTags(r)
            P == SentTags(r)
        IN  (Contains(S, old_tag) /\ ~Contains(S, new_tag)) =>
                Elems(P) = (Elems(S) \ { old_tag }) \cup { new_tag }

\* C3 amended: the same, for findings listed with exactly one occurrence of
\* the old tag (and none of the new one): the sent tags are (S - {o}) + {n},
\* without o and with n.
C3_MembershipExactSingleOld ==
    \A r \in Elems(PatchSeq) :
        LET S == ListedTags(r)
            P == SentTags(r)
        IN  (Count(S, old_tag) = 1 /\ ~Contains(S, new_tag)) =>
                /\ Elems(P) = (Elems(S) \ { old_tag }) \cup { new_tag }
                /\ ~Contains(P, old_tag)
                /\ Contains(P, new_tag)

C3_Witness ==
    \E r \in Elems(PatchSeq) :
        LET S == ListedTags(r)
        IN  /\ Count(S, old_tag) = 1
            /\ ~Contains(S, new_tag)
            /\ Contains(S, OtherTag)
            /\ r.status = 200

-----------------------------------------------------------------------------
\* C4: a PATCH answered with something other than 200 does not stop the loop:
\* while the loop runs one PATCH has been sent per finding visited whatever
\* the answers were, updated_count is the number of 200 answers, and once the
\* function has returned after a PATCH every listed finding has had its PATCH,
\* the report reads "<number of 200s> out of <number listed>", and the
\* process exits 0.
C4_FailedPatchDoesNotStopLoop ==
    LET ps == PatchSeq IN
    /\ updated_count = Cardinality(Succeeded)
    /\ pc = "patch" =>
          Len(ps) = (idx - 1) + (IF awaiting THEN 1 ELSE 0)
    /\ (Finished /\ Len(ps) > 0) =>
          /\ Len(ps) = Len(listed)
          /\ Printed(Line("updated", Cardinality(Succeeded), Len(listed)))
          /\ ~PrintedMsg("failed_to_update_finding")
    /\ (pc = "exit" /\ Len(ps) > 0) => exit_code = 0

C4_Witness ==
    /\ pc = "exit"
    /\ exit_code = 0
    /\ Len(listed) = 3
    /\ Len(PatchSeq) = 3
    /\ PatchSeq[2].status = 500
    /\ Printed(Line("updated", 2, 3))

-----------------------------------------------------------------------------
\* C5: when the listing answers 200 with no finding, no PATCH (and no further
\* request at all) is issued, the operator is told nothing was found, no
\* error is printed, and the process exits 0.
C5_EmptyListingNoPatch ==
    (ListingSucceeded /\ listed = << >>) =>
        /\ PatchSeq = << >>
        /\ IsListing(requests[Len(requests)])
        /\ Finished
        /\ updated_count = 0
        /\ PrintedMsg("no_findings_found")
        /\ ~PrintedMsg("updated")
        /\ \A i \in 1..Len(output) :
              output[i].msg \in { "no_findings_found", "findings_processed" }
        /\ exit_code \in { -1, 0 }
        /\ pc = "exit" => exit_code = 0

C5_Witness ==
    /\ ListingSucceeded
    /\ listed = << >>
    /\ pc = "exit"
    /\ exit_code = 0

-----------------------------------------------------------------------------
\* a request of the steps before the update that has been answered with a
\* failure: an authentication or listing call answered with a non-200, or a
\* project lookup answered with a non-200 or with an empty list
FailedPreUpdate(r) ==
    /\ ~IsPatch(r)
    /\ r.status # 0
    /\ \/ r.status # 200
       \/ IsLookup(r) /\ r.no_objects

\* C6: when a step before the update fails, the failing request is the last
\* request of the run, no PATCH has been or will be issued, the failure is
\* printed by update_finding_tags, and the process exits 0.
C6_PreUpdateFailureIsCaught ==
    LET ps == PatchSeq IN
    \A i \in 1..Len(requests) :
        FailedPreUpdate(requests[i]) =>
            /\ i = Len(requests)
            /\ ps = << >>
            /\ Finished
            /\ \/ PrintedMsg("failed_to_get_token")
               \/ PrintedMsg("no_project_found")
               \/ PrintedMsg("failed_to_fetch_project")
               \/ PrintedMsg("failed_to_fetch_findings")
            /\ exit_code \in { -1, 0 }
            /\ pc = "exit" => exit_code = 0

\* the authentication for the update loop fails after a non-empty listing
C6_Witness ==
    /\ pc = "exit"
    /\ exit_code = 0
    /\ Len(listed) > 0
    /\ Len(AuthSeq) = 3
    /\ AuthSeq[3].status = 401
    /\ PatchSeq = << >>

-----------------------------------------------------------------------------
Privileged == { i \in 1..Len(requests) : ~IsAuth(requests[i]) }

FindingsCalls == { i \in 1..Len(requests) : IsListing(requests[i]) \/ IsPatch(requests[i]) }

\* C7 as stated: no two privileged requests use the same token, and a run
\* that completes with N findings-related calls has made N+1 authentication
\* round-trips.
C7_AuthPerRequest ==
    /\ \A i, j \in Privileged : i # j => requests[i].token # requests[j].token
    /\ (pc = "exit" /\ PrintedMsg("updated")) =>
          Len(AuthSeq) = Cardinality(FindingsCalls) + 1

\* C7 amended: a token is fetched once per operation, not once per request.
\* Every privileged request carries the token of the latest authentication
\* before it, which answered 200; the project lookup and the listing each
\* directly follow an authentication of their own; all PATCHes of a run share
\* the one token fetched before the loop; a run makes at most 3
\* authentication round-trips, exactly 3 once a PATCH was sent, and exactly 2
\* when the listing is empty.
C7_AuthPerOperation ==
    LET ps == PatchSeq IN
    /\ \A i \in Privileged :
          LET t == requests[i].token
          IN  /\ t \in 1..(i - 1)
              /\ IsAuth(requests[t])
              /\ requests[t].status = 200
              /\ \A j \in (t + 1)..(i - 1) : ~IsAuth(requests[j])
              /\ ~IsPatch(requests[i]) => t = i - 1
    /\ \A i, j \in Privileged :
          (i # j /\ requests[i].token = requests[j].token) =>
              (IsPatch(requests[i]) /\ IsPatch(requests[j]))
    /\ \A k \in 1..Len(ps) : ps[k].token = ps[1].token
    /\ Len(AuthSeq) <= 3
    /\ Len(ps) > 0 => Len(AuthSeq) = 3
    /\ (ListingSucceeded /\ listed = << >>) => Len(AuthSeq) = 2

C7_Witness ==
    /\ pc = "exit"
    /\ Len(PatchSeq) = 3
    /\ Len(AuthSeq) = 3
    /\ PatchSeq[1].token = PatchSeq[3].token

-----------------------------------------------------------------------------
\* C8: for a finding listed without the old tag and with the new tag, the
\* tags sent in its PATCH are the tags as listed (same elements, same order),
\* the finding's own tag list is left as it was, and recomputing once more
\* from the sent tags gives the sent tags again.
C8_RecomputeIdempotent ==
    \A r \in Elems(PatchSeq) :
        LET S == ListedTags(r)
            P == SentTags(r)
        IN  (~Contains(S, old_tag) /\ Contains(S, new_tag)) =>
                /\ P = S
                /\ findings[r.payload.uuid].tags = S
                /\ RecomputeTags(P, old_tag, new_tag) = P

C8_Witness ==
    \E r \in Elems(PatchSeq) :
        LET S == ListedTags(r)
        IN  /\ ~Contains(S, old_tag)
            /\ Contains(S, new_tag)
            /\ Len(S) >= 2
            /\ r.status = 200

-----------------------------------------------------------------------------
\* findings the server has changed: those whose PATCH it answered with 200
ServerChanged == LET ps == PatchSeq IN { ps[k].payload.uuid : k \in Succeeded }

\* C9: the PATCHes are one per finding in listing order (the k-th PATCH is
\* for the k-th listed finding, never more PATCHes than findings); only the
\* last request of the run can be without its response, so a PATCH is sent
\* only after the previous response; every PATCH comes after the listing
\* answered 200, with only PATCHes after the first one; when the report is
\* printed every listed finding has had its PATCH; and at every moment the
\* number of findings changed on the server is the number of PATCHes
\* answered 200, which is updated_count.
C9_SequentialInListingOrder ==
    LET ps == PatchSeq IN
    /\ Len(ps) <= Len(listed)
    /\ \A k \in 1..Len(ps) : ps[k].payload.uuid = listed[k].uuid
    /\ \A i \in 1..(Len(requests) - 1) : requests[i].status # 0
    /\ awaiting <=> (requests # << >> /\ requests[Len(requests)].status = 0)
    /\ \A i \in 1..Len(requests) :
          IsPatch(requests[i]) =>
              /\ \E j \in 1..(i - 1) :
                    IsListing(requests[j]) /\ requests[j].status = 200
              /\ \A j \in (i + 1)..Len(requests) : IsPatch(requests[j])
    /\ PrintedMsg("updated") => Len(ps) = Len(listed)
    /\ Cardinality(ServerChanged) = Cardinality(Succeeded)
    /\ Cardinality(ServerChanged) = updated_count

\* the run is in the middle of the loop: two PATCHes answered, one of them
\* with a 200, the third not yet sent
C9_Witness ==
    /\ pc = "patch"
    /\ ~awaiting
    /\ Len(listed) = 3
    /\ Len(PatchSeq) = 2
    /\ Cardinality(ServerChanged) = 1

-----------------------------------------------------------------------------
\* s with its i-th element taken out
Without(s, i) == [j \in 1..(Len(s) - 1) |-> IF j < i THEN s[j] ELSE s[j + 1]]

NotOld(t) == t # old_tag

\* C10: every PATCH carries exactly an update mask "meta.tags", the finding's
\* uuid and its tags; the tags sent are the listed tags with at most one
\* element taken out, that element being the old tag, and with at most the
\* new tag put at the end, and only when it is not already there; the listed
\* tags other than the old tag keep their order; a finding not yet visited
\* still has the tags it was listed with.
C10_PatchFrame ==
    LET ps == PatchSeq IN
    /\ \A k \in 1..Len(ps) :
          LET S == ListedTags(ps[k])
              P == SentTags(ps[k])
              kept == { S } \cup { Without(S, i) : i \in { j \in 1..Len(S) : S[j] = old_tag } }
          IN  /\ DOMAIN ps[k].payload = { "update_mask", "uuid", "tags" }
              /\ ps[k].payload.update_mask = "meta.tags"
              /\ ps[k].payload.uuid = listed[k].uuid
              /\ \E R \in kept :
                    \/ P = R
                    \/ P = Append(R, new_tag) /\ ~Contains(R, new_tag)
              /\ \E R \in kept :
                    SelectSeq(R, NotOld) = SelectSeq(S, NotOld)
                    /\ (P = R \/ P = Append(R, new_tag))
              /\ \A t \in Elems(P) : t = new_tag \/ t \in Elems(S)
              /\ \A t \in Elems(S) : t # old_tag => Count(P, t) >= Count(S, t)
              /\ Count(P, new_tag) <= Count(S, new_tag) + 1
    /\ Len(findings) = Len(listed)
    /\ \A j \in (Len(ps) + 1)..Len(listed) : findings[j] = listed[j]
    /\ \A j \in 1..Len(listed) : findings[j].uuid = listed[j].uuid

\* the first finding, listed with the old tag and another tag, has been sent
\* with the new tag at the end, while its neighbour is still as listed
C10_Witness ==
    /\ Len(listed) >= 2
    /\ Len(PatchSeq) = 1
    /\ Len(ListedTags(PatchSeq[1])) >= 2
    /\ Contains(ListedTags(PatchSeq[1]), old_tag)
    /\ Contains(ListedTags(PatchSeq[1]), OtherTag)
    /\ old_tag # new_tag
    /\ SentTags(PatchSeq[1])[Len(SentTags(PatchSeq[1]))] = new_tag
    /\ listed[2].tags # << >>

=============================================================================
